---------------------------- MODULE Spec2Model ----------------------------
(***************************************************************************)
(* A model of code/utils.py: checkpoint save/load and mkdir over a small   *)
(* filesystem, and the tensor helpers rescale, corruption and get_sigmas   *)
(* as functions applied to inputs drawn from bounded sets.                 *)
(*                                                                         *)
(* Tensor elements are exact rationals extended with the IEEE specials     *)
(* NaN, +Inf and -Inf; rounding of float32 is not modelled.                *)
(***************************************************************************)
EXTENDS Integers, Sequences, FiniteSets, TLC

VARIABLES fs, args, out

vars == <<fs, args, out>>

-----------------------------------------------------------------------------
(* Bounds of the model.                                                    *)

\* rescale: tensors of 1..MaxLen elements, finite elements in -1..MaxElem,
\* lo and hi in -1..MaxBound
MaxLen == 3
MaxElem == 2
MaxBound == 2

-----------------------------------------------------------------------------
(* Tensor elements: a rational n/d in lowest terms with d > 0, or a        *)
(* special with d = 0: n = 0 is NaN, n = 1 is +Inf, n = -1 is -Inf.        *)

RECURSIVE GCD(_, _)
GCD(a, b) == IF b = 0 THEN a ELSE GCD(b, a % b)

Abs(k) == IF k < 0 THEN -k ELSE k

Sign(k) == IF k < 0 THEN -1 ELSE IF k > 0 THEN 1 ELSE 0

Frac(n, d) ==
    LET g == GCD(Abs(n), Abs(d))
        s == Sign(d)
    IN  [n |-> (s * n) \div g, d |-> (s * d) \div g]

Num(k) == [n |-> k, d |-> 1]

NaN == [n |-> 0, d |-> 0]

PInf == [n |-> 1, d |-> 0]

NInf == [n |-> -1, d |-> 0]

IsNaN(a) == a.d = 0 /\ a.n = 0

IsInf(a) == a.d = 0 /\ a.n # 0

IsFinite(a) == a.d > 0

Neg(a) == [n |-> -a.n, d |-> a.d]

Add(a, b) ==
    IF IsNaN(a) \/ IsNaN(b) THEN NaN
    ELSE IF IsInf(a) /\ IsInf(b) THEN (IF a.n = b.n THEN a ELSE NaN)
    ELSE IF IsInf(a) THEN a
    ELSE IF IsInf(b) THEN b
    ELSE Frac(a.n * b.d + b.n * a.d, a.d * b.d)

Sub(a, b) == Add(a, Neg(b))

Mul(a, b) ==
    IF IsNaN(a) \/ IsNaN(b) THEN NaN
    ELSE IF IsInf(a) \/ IsInf(b)
         THEN (IF a.n = 0 \/ b.n = 0 THEN NaN
               ELSE [n |-> Sign(a.n) * Sign(b.n), d |-> 0])
    ELSE Frac(a.n * b.n, a.d * b.d)

\* IEEE division; a zero divisor is +0.0 (here it is always max - min)
Div(a, b) ==
    IF IsNaN(a) \/ IsNaN(b) THEN NaN
    ELSE IF IsInf(b) THEN (IF IsInf(a) THEN NaN ELSE Num(0))
    ELSE IF b.n = 0 THEN (IF a.n = 0 THEN NaN ELSE [n |-> Sign(a.n), d |-> 0])
    ELSE IF IsInf(a) THEN [n |-> a.n * Sign(b.n), d |-> 0]
    ELSE Frac(a.n * b.d, a.d * b.n)

\* a < b; false as soon as one side is NaN
Lt(a, b) ==
    /\ ~IsNaN(a)
    /\ ~IsNaN(b)
    /\ IF IsInf(a) /\ IsInf(b) THEN a.n < b.n
       ELSE a.n * b.d < b.n * a.d

Le(a, b) == ~IsNaN(a) /\ ~IsNaN(b) /\ ~Lt(b, a)

Range(s) == {s[i] : i \in DOMAIN s}

\* torch.max / torch.min over all elements: NaN as soon as one element is NaN
TensorMax(x) ==
    IF \E v \in Range(x) : IsNaN(v) THEN NaN
    ELSE CHOOSE v \in Range(x) : \A w \in Range(x) : Le(w, v)

TensorMin(x) ==
    IF \E v \in Range(x) : IsNaN(v) THEN NaN
    ELSE CHOOSE v \in Range(x) : \A w \in Range(x) : Le(v, w)

-----------------------------------------------------------------------------
(* Results of a call.                                                      *)

Pending == [status |-> "pending"]

Ok(v) == [status |-> "ok", value |-> v]

Raised(e) == [status |-> "raised", error |-> e]

\* No file and no directory anywhere.
Absent == [kind |-> "absent"]

Paths == {"ckpt", "run"}

EmptyFS == [p \in Paths |-> Absent]

NoCall == [fn |-> "none"]

-----------------------------------------------------------------------------
(* Checkpoints and directories.  fs maps a path to what is there: nothing, *)
(* a directory, or a file holding the mapping torch.save wrote.            *)

Dir == [kind |-> "dir"]

File(d) == [kind |-> "file", data |-> d]

\* Python's None; objects and states are the numbers from 1
None == 0

\* state_dict() of a model or optimizer whose state is s
state_dict(obj) == obj

OptionalKeys == {"optimizer", "replay_buffer", "discriminator", "optimizer_d"}

\* checkpoint.get(key, None)
Get(checkpoint, key) ==
    IF key \in DOMAIN checkpoint THEN checkpoint[key] ELSE None

\* the mapping save_model builds from its arguments
SaveDict(model, optimizer, replay_buffer, discriminator, optimizer_d) ==
    LET given == [optimizer |-> optimizer, replay_buffer |-> replay_buffer,
                  discriminator |-> discriminator, optimizer_d |-> optimizer_d]
        keys == {"model"} \cup {k \in OptionalKeys : given[k] # None}
    IN  [k \in keys |->
            IF k = "model" THEN state_dict(model)
            ELSE IF k = "optimizer" THEN state_dict(optimizer)
            ELSE given[k]]

\* torch.save(save_dict, path): replaces the file; a directory cannot be opened
TorchSave(f, path, save_dict) ==
    IF f[path].kind = "dir"
    THEN [fs |-> f, out |-> Raised("IsADirectoryError")]
    ELSE [fs |-> [f EXCEPT ![path] = File(save_dict)], out |-> Ok(None)]

\* a save that updates the mapping already stored at the path
save_model_update(f, save_path, model, optimizer, replay_buffer, discriminator, optimizer_d) ==
    LET new == SaveDict(model, optimizer, replay_buffer, discriminator, optimizer_d)
        old == IF f[save_path].kind = "file" THEN f[save_path].data ELSE new
    IN  TorchSave(f, save_path,
                  [k \in DOMAIN old \cup DOMAIN new |->
                      IF k \in DOMAIN new THEN new[k] ELSE old[k]])

save_model(f, save_path, model, optimizer, replay_buffer, discriminator, optimizer_d) ==
    TorchSave(f, save_path,
              SaveDict(model, optimizer, replay_buffer, discriminator, optimizer_d))

load_model(f, load_path) ==
    IF f[load_path].kind = "absent" THEN Raised("FileNotFoundError")
    ELSE IF f[load_path].kind = "dir" THEN Raised("IsADirectoryError")
    ELSE LET checkpoint == f[load_path].data
         IN  Ok(<<checkpoint["model"],
                  Get(checkpoint, "optimizer"),
                  Get(checkpoint, "replay_buffer"),
                  Get(checkpoint, "discriminator"),
                  Get(checkpoint, "optimizer_d")>>)

\* os.makedirs without the os.path.exists test
mkdir_unguarded(f, path) ==
    IF f[path].kind # "absent"
    THEN [fs |-> f, out |-> Raised("FileExistsError")]
    ELSE [fs |-> [f EXCEPT ![path] = Dir], out |-> Ok(None)]

mkdir(f, path) ==
    IF f[path].kind = "absent"
    THEN [fs |-> [f EXCEPT ![path] = Dir], out |-> Ok(None)]
    ELSE [fs |-> f, out |-> Ok(None)]

\* the states a model can be in
MaxState == 2

ModelStates == 1..MaxState

\* an optional argument: not given, or some object
Optional == {None, 1}

InitCkpt ==
    /\ fs = EmptyFS
    /\ args = NoCall
    /\ out = Pending

SaveModel ==
    \E path \in Paths, model \in ModelStates, optimizer \in Optional,
       replay_buffer \in Optional, discriminator \in Optional,
       optimizer_d \in Optional :
        LET r == save_model(fs, path, model, optimizer, replay_buffer,
                            discriminator, optimizer_d)
        IN  /\ fs' = r.fs
            /\ out' = r.out
            /\ args' = [fn |-> "save_model", path |-> path, model |-> model,
                        optimizer |-> optimizer, replay_buffer |-> replay_buffer,
                        discriminator |-> discriminator,
                        optimizer_d |-> optimizer_d]

LoadModel ==
    \E path \in Paths :
        /\ out' = load_model(fs, path)
        /\ args' = [fn |-> "load_model", path |-> path]
        /\ UNCHANGED fs

Mkdir ==
    \E path \in Paths :
        LET r == mkdir(fs, path)
        IN  /\ fs' = r.fs
            /\ out' = r.out
            /\ args' = [fn |-> "mkdir", path |-> path]

NextCkpt == SaveModel \/ LoadModel \/ Mkdir

SpecCkpt == InitCkpt /\ [][NextCkpt]_vars

\* the position of each optional field in the tuple load_model returns
FieldOf(key) ==
    CASE key = "optimizer" -> 2
      [] key = "replay_buffer" -> 3
      [] key = "discriminator" -> 4
      [] key = "optimizer_d" -> 5

\* C1: a load_model that directly follows a successful save_model to the same
\* path returns the saved model state, and None for every optional field
\* that save was not given, whatever was saved to the path before.
C1_SaveLoadRoundTrip ==
    [][(/\ args.fn = "save_model"
        /\ out.status = "ok"
        /\ args'.fn = "load_model"
        /\ args'.path = args.path)
       => /\ out'.status = "ok"
          /\ out'.value[1] = state_dict(args.model)
          /\ \A k \in OptionalKeys :
                args[k] = None => out'.value[FieldOf(k)] = None]_vars

C1_Witness ==
    /\ args.fn = "load_model"
    /\ out.status = "ok"
    /\ out.value = <<2, None, 1, None, None>>
    /\ \E q \in Paths : fs[q].kind = "file" /\ fs[q].data # fs[args.path].data

\* C9: mkdir never raises and leaves the path existing; it touches no other
\* path, and when the path already exists it changes nothing, so repeated
\* calls are idempotent.
C9_MkdirIdempotent ==
    /\ [](args.fn = "mkdir" => out = Ok(None) /\ fs[args.path].kind # "absent")
    /\ [][args'.fn = "mkdir" =>
            /\ \A q \in Paths \ {args'.path} : fs'[q] = fs[q]
            /\ fs[args'.path].kind # "absent" => fs' = fs]_vars

C9_Witness ==
    /\ args.fn = "mkdir"
    /\ out = Ok(None)
    /\ fs[args.path].kind = "dir"
    /\ \E q \in Paths : fs[q].kind = "file"


-----------------------------------------------------------------------------
(* rescale                                                                 *)

rescale_off_center(x, lo, hi) ==
    IF ~Lt(lo, hi) THEN Raised("AssertionError")
    ELSE
        LET old_width == Sub(TensorMax(x), TensorMin(x))
            old_center == Add(TensorMin(x), old_width)
            new_width == Sub(hi, lo)
            new_center == Add(lo, Div(new_width, Num(2)))
        IN  Ok([i \in DOMAIN x |->
                  Add(Mul(Sub(x[i], old_center), Div(new_width, old_width)),
                      new_center)])

rescale_assert_le(x, lo, hi) ==
    IF Lt(hi, lo) THEN Raised("AssertionError")
    ELSE
        LET old_width == Sub(TensorMax(x), TensorMin(x))
            old_center == Add(TensorMin(x), Div(old_width, Num(2)))
            new_width == Sub(hi, lo)
            new_center == Add(lo, Div(new_width, Num(2)))
        IN  Ok([i \in DOMAIN x |->
                  Add(Mul(Sub(x[i], old_center), Div(new_width, old_width)),
                      new_center)])

rescale(x, lo, hi) ==
    IF ~Lt(lo, hi) THEN Raised("AssertionError")
    ELSE
        LET old_width == Sub(TensorMax(x), TensorMin(x))
            old_center == Add(TensorMin(x), Div(old_width, Num(2)))
            new_width == Sub(hi, lo)
            new_center == Add(lo, Div(new_width, Num(2)))
            \* shift everything back to zero
            x1 == [i \in DOMAIN x |-> Sub(x[i], old_center)]
            \* rescale to correct width
            x2 == [i \in DOMAIN x |-> Mul(x1[i], Div(new_width, old_width))]
            \* shift everything to the new center
            x3 == [i \in DOMAIN x |-> Add(x2[i], new_center)]
        IN  Ok(x3)

RescaleElems == {Num(k) : k \in -1..MaxElem} \cup {NaN, PInf}

RescaleTensors == UNION {[1..n -> RescaleElems] : n \in 1..MaxLen}

RescaleBounds == {Num(k) : k \in -1..MaxBound}

InitRescale ==
    /\ fs = EmptyFS
    /\ args \in {[fn |-> "rescale", x |-> x, lo |-> lo, hi |-> hi] :
                    x \in RescaleTensors, lo \in RescaleBounds, hi \in RescaleBounds}
    /\ out = Pending

Rescale ==
    /\ args.fn = "rescale"
    /\ out.status = "pending"
    /\ out' = rescale(args.x, args.lo, args.hi)
    /\ UNCHANGED <<fs, args>>

NextRescale == Rescale

SpecRescale == InitRescale /\ [][NextRescale]_vars

\* the element values of the input are all finite
AllFinite(x) == \A i \in DOMAIN x : IsFinite(x[i])

NonConstant(x) == \E i, j \in DOMAIN x : x[i] # x[j]

\* C2: for a non-constant tensor of finite (rational) elements and lo < hi, the
\* output of rescale has minimum lo and maximum hi.
C2_RescaleRange ==
    (/\ args.fn = "rescale"
     /\ out.status # "pending"
     /\ Lt(args.lo, args.hi)
     /\ AllFinite(args.x)
     /\ NonConstant(args.x))
    => /\ out.status = "ok"
       /\ DOMAIN out.value = DOMAIN args.x
       /\ TensorMin(out.value) = args.lo
       /\ TensorMax(out.value) = args.hi

C2_Witness ==
    /\ args.fn = "rescale"
    /\ out.status = "ok"
    /\ args.x = <<Num(2), Num(-1), Num(0)>>
    /\ args.lo = Num(-1)
    /\ args.hi = Num(2)
    /\ out.value = <<Num(2), Num(-1), Num(0)>>

\* C8: rescale raises the assertion failure, and computes no output, whenever
\* lo >= hi, whatever the input tensor.
C8_RescaleAssert ==
    (/\ args.fn = "rescale"
     /\ out.status # "pending"
     /\ Le(args.hi, args.lo))
    => out = Raised("AssertionError")

C8_Witness ==
    /\ args.fn = "rescale"
    /\ args.lo = args.hi
    /\ NonConstant(args.x)
    /\ out = Raised("AssertionError")

-----------------------------------------------------------------------------
(* corruption.  An image is a matrix x[i][j], rows 0..H-1, columns 0..W-1; *)
(* the draw of torch.randn_like(x) is an input of the same shape.          *)

MaxH == 4
MaxW == 4

Height(x) == Cardinality(DOMAIN x)

\* torch.zeros_like(x)
zeros_like(x) == [i \in DOMAIN x |-> [j \in DOMAIN x[i] |-> Num(0)]]

\* the odd rows instead of the even ones
EbmRows_odd(h) == {i \in 0..(h - 1) : i % 2 = 1}

\* torch.arange(0, h, step=2)
EbmRows(h) == {i \in 0..(h - 1) : i % 2 = 0}

\* the slice h // 2 : instead of : h // 2
FlowRows_lower(h) == {i \in 0..(h - 1) : i >= h \div 2}

\* the slice : h // 2
FlowRows(h) == {i \in 0..(h - 1) : i < h \div 2}

\* mask[..., rows, :] = 1
SetRows(mask, rows) ==
    [i \in DOMAIN mask |->
        IF i \in rows THEN [j \in DOMAIN mask[i] |-> Num(1)] ELSE mask[i]]

\* noise added to every pixel, visible or not
Blend_all_noise(xv, m, noise_scale, z) ==
    Add(Mul(xv, m), Mul(noise_scale, z))

\* one element of x * mask + (1 - mask) * noise_scale * randn
Blend(xv, m, noise_scale, z) ==
    Add(Mul(xv, m), Mul(Mul(Sub(Num(1), m), noise_scale), z))

ClampLo == Frac(1, 10000)

ClampHi == Sub(Num(1), Frac(1, 10000))

\* no clamping at all
Clamp_off(v, lo, hi) == v

\* one element of torch.clamp(v, lo, hi); NaN stays NaN
Clamp(v, lo, hi) ==
    IF IsNaN(v) THEN NaN
    ELSE IF Lt(v, lo) THEN lo
    ELSE IF Lt(hi, v) THEN hi
    ELSE v

corruption(x, type_, noise_scale, randn) ==
    IF type_ \notin {"ebm", "flow"} THEN Raised("AssertionError")
    ELSE
        LET zeros == zeros_like(x)
            mask == IF type_ = "ebm" THEN SetRows(zeros, EbmRows(Height(x)))
                    ELSE SetRows(zeros, FlowRows(Height(x)))
            broken_data ==
                [i \in DOMAIN x |-> [j \in DOMAIN x[i] |->
                    Blend(x[i][j], mask[i][j], noise_scale, randn[i][j])]]
            clamped ==
                [i \in DOMAIN x |-> [j \in DOMAIN x[i] |->
                    Clamp(broken_data[i][j], ClampLo, ClampHi)]]
        IN  Ok([broken_data |-> clamped, mask |-> mask])

\* pixel values: below, inside and above the clamp interval, and the specials
PixelValues == <<Num(0), Frac(1, 2), Num(1), NaN, PInf>>

\* draws of the standard normal; scaled by 0.3: below, inside, above
NoiseValues == <<Num(-1), Num(1), Num(4)>>

\* the default 0.3, 1, and an overflowed scale
NoiseScales == {Frac(3, 10), Num(1), PInf}

Types == {"ebm", "flow", "vae"}

\* the h x w matrix whose element (i, j) is vals[(a*i + b*j + c) mod Len + 1]
Pattern(vals, h, w, a, b, c) ==
    [i \in 0..(h - 1) |-> [j \in 0..(w - 1) |->
        vals[((a * i + b * j + c) % Len(vals)) + 1]]]

Images(h, w) ==
    {Pattern(PixelValues, h, w, a, b, c) :
        a \in 0..1, b \in 0..1, c \in 0..(Len(PixelValues) - 1)}

Draws(h, w) ==
    {Pattern(NoiseValues, h, w, a, b, c) :
        a \in 0..1, b \in 0..1, c \in 0..(Len(NoiseValues) - 1)}

CorruptionCalls ==
    UNION {
        {[fn |-> "corruption", x |-> x, type_ |-> t, noise_scale |-> ns,
          randn |-> z] :
            x \in Images(h, w), z \in Draws(h, w), t \in Types,
            ns \in NoiseScales} :
        h \in 1..MaxH, w \in 1..MaxW}

InitCorruption ==
    /\ fs = EmptyFS
    /\ args \in CorruptionCalls
    /\ out = Pending

Corruption ==
    /\ args.fn = "corruption"
    /\ out.status = "pending"
    /\ out' = corruption(args.x, args.type_, args.noise_scale, args.randn)
    /\ UNCHANGED <<fs, args>>

NextCorruption == Corruption

SpecCorruption == InitCorruption /\ [][NextCorruption]_vars

Pixels(x) == {<<i, j>> : i \in DOMAIN x, j \in DOMAIN x[0]}

Returned(t) == args.fn = "corruption" /\ args.type_ = t /\ out.status = "ok"

\* an ordinary call: every pixel and the noise scale are finite numbers
FiniteCall ==
    /\ IsFinite(args.noise_scale)
    /\ \A p \in Pixels(args.x) : IsFinite(args.x[p[1]][p[2]])

\* C3 as claimed, on finite images of even height, where the two halves are
\* unambiguous: in 'flow' mode the top half of the mask rows is 0 and the
\* bottom half is 1 (a 4x4 input gives rows [0,0,1,1]).
C3_FlowMaskTopZero ==
    (Returned("flow") /\ FiniteCall /\ Height(args.x) % 2 = 0) =>
        \A p \in Pixels(args.x) :
            out.value.mask[p[1]][p[2]] =
                (IF p[1] < Height(args.x) \div 2 THEN Num(0) ELSE Num(1))

\* C3 amended: in 'flow' mode the rows with index below H // 2 are 1 and all
\* other rows are 0 (a 4x4 input gives rows [1,1,0,0]).
C3_FlowMaskTopOne ==
    Returned("flow") =>
        /\ DOMAIN out.value.mask = DOMAIN args.x
        /\ \A p \in Pixels(args.x) :
            out.value.mask[p[1]][p[2]] =
                (IF p[1] < Height(args.x) \div 2 THEN Num(1) ELSE Num(0))

C3_Witness ==
    /\ Returned("flow")
    /\ Height(args.x) = 4
    /\ Cardinality(DOMAIN args.x[0]) = 4
    /\ \A j \in 0..3 :
        <<out.value.mask[0][j], out.value.mask[1][j],
          out.value.mask[2][j], out.value.mask[3][j]>>
            = <<Num(1), Num(1), Num(0), Num(0)>>

InClampInterval(v) == Le(ClampLo, v) /\ Le(v, ClampHi)

\* C5 as claimed, already with the default and other finite noise scales:
\* every element of the corrupted tensor lies in [1e-4, 1 - 1e-4], for every
\* input x.
C5_AlwaysClamped ==
    (args.fn = "corruption" /\ out.status = "ok" /\ IsFinite(args.noise_scale)) =>
        \A p \in Pixels(args.x) :
            InClampInterval(out.value.broken_data[p[1]][p[2]])

\* C5 amended: every element of the corrupted tensor lies in
\* [1e-4, 1 - 1e-4] when noise_scale is finite and no element of x is NaN or
\* infinite.
C5_FiniteClamped ==
    (/\ args.fn = "corruption"
     /\ out.status = "ok"
     /\ FiniteCall) =>
        \A p \in Pixels(args.x) :
            InClampInterval(out.value.broken_data[p[1]][p[2]])

C5_Witness ==
    /\ args.fn = "corruption"
    /\ out.status = "ok"
    /\ args.noise_scale = Frac(3, 10)
    /\ \A p \in Pixels(args.x) : IsFinite(args.x[p[1]][p[2]])
    /\ \E p, q, r \in Pixels(args.x) :
        /\ out.value.mask[p[1]][p[2]] = Num(1)
        /\ args.x[p[1]][p[2]] = Num(1)
        /\ out.value.broken_data[p[1]][p[2]] = ClampHi
        /\ out.value.mask[q[1]][q[2]] = Num(0)
        /\ args.randn[q[1]][q[2]] = Num(-1)
        /\ out.value.broken_data[q[1]][q[2]] = ClampLo
        /\ out.value.mask[r[1]][r[2]] = Num(0)
        /\ args.randn[r[1]][r[2]] = Num(4)
        /\ out.value.broken_data[r[1]][r[2]] = ClampHi

\* C10 as claimed, already on finite inputs: the corrupted tensor equals x at
\* every visible pixel and is the clamped scaled noise at every occluded pixel.
C10_VisibleUnchanged ==
    (args.fn = "corruption" /\ out.status = "ok" /\ FiniteCall) =>
        \A p \in Pixels(args.x) :
            LET m == out.value.mask[p[1]][p[2]]
                b == out.value.broken_data[p[1]][p[2]]
            IN  /\ m = Num(1) => b = args.x[p[1]][p[2]]
                /\ m = Num(0) =>
                     b = Clamp(Mul(args.noise_scale, args.randn[p[1]][p[2]]),
                               ClampLo, ClampHi)

\* C10 amended: at a visible pixel the corrupted value is x clamped to
\* [1e-4, 1 - 1e-4], so it equals x exactly when x lies in that interval; at
\* an occluded pixel whose x is finite it is the clamped scaled noise,
\* whatever x is there (noise_scale finite).
C10_VisibleClamped ==
    (args.fn = "corruption" /\ out.status = "ok" /\ IsFinite(args.noise_scale)) =>
        \A p \in Pixels(args.x) :
            LET m == out.value.mask[p[1]][p[2]]
                b == out.value.broken_data[p[1]][p[2]]
                xv == args.x[p[1]][p[2]]
            IN  /\ m \in {Num(0), Num(1)}
                /\ m = Num(1) => b = Clamp(xv, ClampLo, ClampHi)
                /\ (m = Num(1) /\ InClampInterval(xv)) => b = xv
                /\ (m = Num(0) /\ IsFinite(xv)) =>
                     b = Clamp(Mul(args.noise_scale, args.randn[p[1]][p[2]]),
                               ClampLo, ClampHi)

C10_Witness ==
    /\ args.fn = "corruption"
    /\ out.status = "ok"
    /\ \E p, q, r \in Pixels(args.x) :
        /\ out.value.mask[p[1]][p[2]] = Num(1)
        /\ args.x[p[1]][p[2]] = Num(0)
        /\ out.value.broken_data[p[1]][p[2]] = ClampLo
        /\ out.value.mask[q[1]][q[2]] = Num(1)
        /\ args.x[q[1]][q[2]] = Frac(1, 2)
        /\ out.value.broken_data[q[1]][q[2]] = Frac(1, 2)
        /\ out.value.mask[r[1]][r[2]] = Num(0)
        /\ args.x[r[1]][r[2]] = Num(1)
        /\ args.noise_scale = Frac(3, 10)
        /\ args.randn[r[1]][r[2]] = Num(1)
        /\ out.value.broken_data[r[1]][r[2]] = Frac(3, 10)

-----------------------------------------------------------------------------
(* get_sigmas.  config.model gives sigma_dist, sigma_begin, sigma_end and  *)
(* num_classes.                                                            *)

MaxSigma == 10
MaxClasses == 10

\* the spacing of endpoint=False: num steps, the end never reached
linspace_open(start, stop, num) ==
    [i \in 1..num |-> Add(start, Mul(Num(i - 1), Div(Sub(stop, start), Num(num))))]

\* np.linspace(start, stop, num): num samples, start + i * step with
\* step = (stop - start) / (num - 1), the last one set to stop when num > 1;
\* a single sample is start
linspace(start, stop, num) ==
    LET div == num - 1
        delta == Sub(stop, start)
    IN  [i \in 1..num |->
            IF num > 1 /\ i = num THEN stop
            ELSE IF div > 0 THEN Add(Mul(Num(i - 1), Div(delta, Num(div))), start)
            ELSE Add(Mul(Num(i - 1), delta), start)]

\* np.exp(np.linspace(np.log(b), np.log(e), num)), kept symbolic: sample i is
\* exp((1 - t) * log(b) + t * log(e)) at the fraction t that linspace(0, 1, num)
\* gives
geomspace(b, e, num) ==
    LET t == linspace(Num(0), Num(1), num)
    IN  [i \in 1..num |-> [begin |-> b, end |-> e, t |-> t[i]]]

\* an unknown kind treated as 'uniform'
get_sigmas_fallback(config) ==
    IF config.sigma_dist = "geometric"
    THEN Ok(geomspace(config.sigma_begin, config.sigma_end, config.num_classes))
    ELSE Ok(linspace(config.sigma_begin, config.sigma_end, config.num_classes))

get_sigmas(config) ==
    IF config.sigma_dist = "geometric"
    THEN Ok(geomspace(config.sigma_begin, config.sigma_end, config.num_classes))
    ELSE IF config.sigma_dist = "uniform"
    THEN Ok(linspace(config.sigma_begin, config.sigma_end, config.num_classes))
    ELSE Raised("NotImplementedError")

SigmaDists == {"geometric", "uniform", "linear", ""}

Configs ==
    [sigma_dist : SigmaDists,
     sigma_begin : {Num(k) : k \in 1..MaxSigma},
     sigma_end : {Num(k) : k \in 1..MaxSigma},
     num_classes : 0..MaxClasses]

InitSigmas ==
    /\ fs = EmptyFS
    /\ args \in {[fn |-> "get_sigmas", config |-> c] : c \in Configs}
    /\ out = Pending

GetSigmas ==
    /\ args.fn = "get_sigmas"
    /\ out.status = "pending"
    /\ out' = get_sigmas(args.config)
    /\ UNCHANGED <<fs, args>>

NextSigmas == GetSigmas

SpecSigmas == InitSigmas /\ [][NextSigmas]_vars

UniformDone ==
    /\ args.fn = "get_sigmas"
    /\ args.config.sigma_dist = "uniform"
    /\ out.status # "pending"

\* consecutive values differ by the same amount everywhere
EvenlySpaced(v) ==
    \A i \in 1..(Len(v) - 2) : Sub(v[i + 1], v[i]) = Sub(v[i + 2], v[i + 1])

\* C6 as claimed: 'uniform' returns num_classes evenly spaced values, the
\* first sigma_begin and the last sigma_end.
C6_UniformEndpoints ==
    UniformDone =>
        /\ out.status = "ok"
        /\ Len(out.value) = args.config.num_classes
        /\ EvenlySpaced(out.value)
        /\ args.config.num_classes >= 1 =>
            /\ out.value[1] = args.config.sigma_begin
            /\ out.value[args.config.num_classes] = args.config.sigma_end

\* C6 amended: 'uniform' returns num_classes evenly spaced values; the first
\* is sigma_begin, and the last is sigma_end when num_classes >= 2 (a single
\* value is sigma_begin).
C6_UniformEndpointsFromTwo ==
    UniformDone =>
        /\ out.status = "ok"
        /\ Len(out.value) = args.config.num_classes
        /\ EvenlySpaced(out.value)
        /\ args.config.num_classes >= 1 =>
            out.value[1] = args.config.sigma_begin
        /\ args.config.num_classes >= 2 =>
            /\ out.value[args.config.num_classes] = args.config.sigma_end
            /\ \A i \in 1..(args.config.num_classes - 1) :
                Sub(out.value[i + 1], out.value[i]) =
                    Div(Sub(args.config.sigma_end, args.config.sigma_begin),
                        Num(args.config.num_classes - 1))

C6_Witness ==
    /\ UniformDone
    /\ args.config.sigma_begin = Num(1)
    /\ args.config.sigma_end = Num(10)
    /\ args.config.num_classes = 10
    /\ out.value = [i \in 1..10 |-> Num(i)]

\* C7: every sigma_dist other than 'geometric' and 'uniform' raises the
\* not-implemented failure and returns no sequence.
C7_UnsupportedRaises ==
    (/\ args.fn = "get_sigmas"
     /\ out.status # "pending"
     /\ args.config.sigma_dist \notin {"geometric", "uniform"})
    => out = Raised("NotImplementedError")

C7_Witness ==
    /\ args.fn = "get_sigmas"
    /\ args.config.sigma_dist = "linear"
    /\ args.config.num_classes = 10
    /\ out = Raised("NotImplementedError")

=============================================================================
